---- MODULE Spec2Model ----
(***************************************************************************)
(* The transmission state manager of galacticpirateradio-site              *)
(* (src/src/main.rs): the in-memory TransmissionState behind a tokio       *)
(* RwLock, the JSON store at data/recent_transmissions.json, and the       *)
(* callers of generate_if_needed_and_persist (main, the index handler and  *)
(* the 300 s ticker task).                                                 *)
(***************************************************************************)
EXTENDS Integers, Sequences, FiniteSets, TLC

\* ------------------------------------------------------------------------
\* Program constants
\* ------------------------------------------------------------------------
GENERATION_INTERVAL_SECS == 3 * 60 * 60
MAX_TRANSMISSIONS == 12

\* ------------------------------------------------------------------------
\* Bounds of the model
\* ------------------------------------------------------------------------
\* number of concurrently served index requests
NumRequests == 1
\* the wall clock is read as BaseTime + k * ClockStep, k \in 0..MaxTicks, or
\* as half a step after BaseTime
MaxTicks == 2
BaseTime == 1000000
ClockStep == GENERATION_INTERVAL_SECS

Times ==
    {BaseTime + k * ClockStep : k \in 0..MaxTicks}
    \cup {BaseTime + ClockStep \div 2}

\* the values unix_now_secs() returns: the system clock may be stepped
\* between two reads, forward or backward, so every read draws any of them
unix_now_secs == Times

\* ------------------------------------------------------------------------
\* Pure functions
\* ------------------------------------------------------------------------
\* mutant: a wrapping subtraction (u64::wrapping_sub), huge when a < b
WrappingSub(a, b) == IF a >= b THEN a - b ELSE 2000000000 - (b - a)

\* u64::saturating_sub
SaturatingSub(a, b) == IF a >= b THEN a - b ELSE 0

\* mutant: no truncation
TruncateNothing(s, len) == s

\* Vec::truncate(len): keeps the first len elements, no effect when shorter
Truncate(s, len) == IF Len(s) > len THEN SubSeq(s, 1, len) ELSE s

\* mutant: Vec::push, the new element goes to the tail
InsertBack(s, e) == s \o <<e>>

\* Vec::insert(0, e)
InsertFront(s, e) == <<e>> \o s

\* format!("{hour:02}:{minute:02}:{second:02}"): the six digits of the label
\* (a field wider than two digits would print in full; hour, minute and
\* second are below 100 here, so each prints as exactly two digits)
clock_label_from_unix(unix_seconds) ==
    LET seconds_today == unix_seconds % 86400
        hour == seconds_today \div 3600
        minute == (seconds_today % 3600) \div 60
        second == seconds_today % 60
    IN  <<hour \div 10, hour % 10, minute \div 10, minute % 10,
          second \div 10, second % 10>>

subjects == <<"Long-range scanner", "Relay drone", "Pirate beacon",
              "Outer rim array", "Subspace receiver", "Navigation core">>
actions == <<"locked onto", "decoded", "flagged", "stabilized", "rerouted",
             "intercepted">>
objects == <<"a drifting colony ping", "an encrypted trader channel",
             "a rogue moon telemetry burst", "a hidden wormhole marker",
             "an ion storm distress packet", "a ghost-fleet handshake">>

\* format!("{} {} {}.", subjects[s], actions[a], objects[o]): the three words
generate_scifi_message(now, entry_count) ==
    LET s == ((now \div 7) + entry_count * 3) % Len(subjects)
        a == ((now \div 11) + entry_count * 5) % Len(actions)
        o == ((now \div 13) + entry_count * 7) % Len(objects)
    IN  <<subjects[s + 1], actions[a + 1], objects[o + 1]>>

\* a TransmissionEntry
Entry(ts, label, msg) == [timestamp |-> ts, time_label |-> label, message |-> msg]

\* a TransmissionState
State(last, es) == [last_generated_at |-> last, entries |-> es]

\* the seed with its second and third timestamps exchanged
default_transmissions_unordered(now) ==
    State(now,
          << Entry(SaturatingSub(now, 1200),
                   clock_label_from_unix(SaturatingSub(now, 1200)),
                   <<"Uplink stabilized. Archive index pushed to public relay.">>),
             Entry(SaturatingSub(now, 5800),
                   clock_label_from_unix(SaturatingSub(now, 5800)),
                   <<"Detected repeating pattern in ambient static. Logged as anomaly A-17.">>),
             Entry(SaturatingSub(now, 3300),
                   clock_label_from_unix(SaturatingSub(now, 3300)),
                   <<"Scheduled new broadcast: Deep Space Transmitter.">>) >>)

default_transmissions(now) ==
    State(now,
          << Entry(SaturatingSub(now, 1200),
                   clock_label_from_unix(SaturatingSub(now, 1200)),
                   <<"Uplink stabilized. Archive index pushed to public relay.">>),
             Entry(SaturatingSub(now, 3300),
                   clock_label_from_unix(SaturatingSub(now, 3300)),
                   <<"Detected repeating pattern in ambient static. Logged as anomaly A-17.">>),
             Entry(SaturatingSub(now, 5800),
                   clock_label_from_unix(SaturatingSub(now, 5800)),
                   <<"Scheduled new broadcast: Deep Space Transmitter.">>) >>)


\* ------------------------------------------------------------------------
\* The durable store (data/recent_transmissions.json)
\* ------------------------------------------------------------------------
NoState == State(0, <<>>)

\* #[derive(Serialize)]: a struct becomes a JSON object, written here as the
\* list of its members <<name, value>> in the order of the struct's fields; a
\* Vec becomes an array in the order of its elements
entry_to_json(e) ==
    << <<"timestamp", e.timestamp>>,
       <<"time_label", e.time_label>>,
       <<"message", e.message>> >>

\* the entries array written oldest first
to_json_oldest_first(st) ==
    << <<"last_generated_at", st.last_generated_at>>,
       <<"entries", [i \in 1..Len(st.entries) |->
                       entry_to_json(st.entries[Len(st.entries) + 1 - i])]>> >>

\* serde_json::to_string_pretty(state)
to_json(st) ==
    << <<"last_generated_at", st.last_generated_at>>,
       <<"entries", [i \in 1..Len(st.entries) |->
                       entry_to_json(st.entries[i])]>> >>

\* #[derive(Deserialize)]: each field is looked up in the object by its name
Member(doc, name) == doc[CHOOSE i \in DOMAIN doc : doc[i][1] = name][2]

entry_from_json(doc) ==
    Entry(Member(doc, "timestamp"), Member(doc, "time_label"),
          Member(doc, "message"))

\* serde_json::from_str::<TransmissionState>(&raw)
from_json(doc) ==
    State(Member(doc, "last_generated_at"),
          [i \in 1..Len(Member(doc, "entries")) |->
              entry_from_json(Member(doc, "entries")[i])])

\* the file is missing, holds text serde_json rejects, or holds a document
\* that deserializes to a TransmissionState
StoreAbsent == [kind |-> "absent", doc |-> <<>>]
StoreGarbage == [kind |-> "garbage", doc |-> <<>>]
StoreJson(st) == [kind |-> "json", doc |-> to_json(st)]

\* a store left by an earlier run of the program: n entries generated every
\* GENERATION_INTERVAL_SECS, the newest at time last
PriorEntry(last, n, i) ==
    LET ts == SaturatingSub(last, (i - 1) * GENERATION_INTERVAL_SECS)
    IN  Entry(ts, clock_label_from_unix(ts), generate_scifi_message(ts, n - i))

PriorRun(last, n) == State(last, [i \in 1..n |-> PriorEntry(last, n, i)])

\* a document whose first entry carries a label that is not the formatted
\* form of its timestamp (any parseable document is accepted by serde)
ForeignLabel == <<9, 9, 9, 9, 9, 9>>

Relabelled(st) ==
    State(st.last_generated_at,
          [i \in 1..Len(st.entries) |->
              IF i = 1
              THEN Entry(st.entries[i].timestamp, ForeignLabel, st.entries[i].message)
              ELSE st.entries[i]])

\* lengths of the stored lists: a list at the cap and a list one element over
\* the cap (nothing trims the list when it is loaded)
StoredLens == {MAX_TRANSMISSIONS, MAX_TRANSMISSIONS + 1}

\* last_generated_at of the stored state: a full interval before the first
\* clock value, and half an interval after it
StoredLasts == {BaseTime - GENERATION_INTERVAL_SECS,
                BaseTime + GENERATION_INTERVAL_SECS \div 2}

StoreChoices ==
    {StoreAbsent, StoreGarbage, StoreJson(State(BaseTime, <<>>)),
     StoreJson(Relabelled(PriorRun(BaseTime - GENERATION_INTERVAL_SECS, 1)))}
    \cup {StoreJson(PriorRun(last, n)) : last \in StoredLasts, n \in StoredLens}

\* persist_transmissions(state): the store after the call. create_dir_all or
\* the open may fail and leave the file as it was; fs::write truncates the
\* file before writing, so a failure while writing leaves a partial document.
PersistOutcomes == {"ok", "io_error", "partial"}

persist_transmissions(st, outcome, old) ==
    CASE outcome = "ok" -> StoreJson(st)
      [] outcome = "io_error" -> old
      [] outcome = "partial" -> StoreGarbage

\* mutant: the guard on an empty entries list is missing
LoadableAnyJson(st) == st.kind = "json"

\* serde_json::from_str::<TransmissionState>(&fs::read_to_string(...))
\* followed by the guard `!state.entries.is_empty()`
Loadable(st) == st.kind = "json" /\ from_json(st.doc).entries # <<>>

\* ------------------------------------------------------------------------
\* maybe_generate_transmission, step by step
\* ------------------------------------------------------------------------
\* mutant: the interval taken as 3 * 60
DueMinutes(st, now) ==
    ~(SaturatingSub(now, st.last_generated_at) < 3 * 60)

\* the gate: false when the call returns early
Due(st, now) ==
    ~(SaturatingSub(now, st.last_generated_at) < GENERATION_INTERVAL_SECS)

NewEntry(st, now) ==
    Entry(now, clock_label_from_unix(now),
          generate_scifi_message(now, Len(st.entries)))

InsertNew(st, now) ==
    State(st.last_generated_at, InsertFront(st.entries, NewEntry(st, now)))

TruncateEntries(st) ==
    State(st.last_generated_at, Truncate(st.entries, MAX_TRANSMISSIONS))

\* mutant: last_generated_at is not updated
SetLastGeneratedStale(st, now) == st

SetLastGenerated(st, now) == State(now, st.entries)

\* ------------------------------------------------------------------------
\* State
\* ------------------------------------------------------------------------
Requests == {<<"req1", "req2", "req3", "req4">>[i] : i \in 1..NumRequests}
Callers == {"main", "timer"} \cup Requests

NoSnapshot == [some |-> FALSE, state |-> NoState]
Some(st) == [some |-> TRUE, state |-> st]

VARIABLES
    transmissions,  \* AppState.transmissions: the TransmissionState in the RwLock
    store,          \* content of data/recent_transmissions.json
    writer,         \* holder of the RwLock's write guard, or "none"
    readers,        \* holders of read guards
    pc,             \* position of each caller
    now,            \* generate_if_needed_and_persist: let now
    snapshot,       \* generate_if_needed_and_persist: let snapshot
    recent,         \* index: let recent_transmissions
    before,         \* history: the state the lock holder's gate check found
    mutations,      \* history: the now of every mutation, oldest first
    ioFailed,       \* history: some persist_transmissions returned Err
    clock,          \* the system clock, where a run follows it second by second
    days,           \* current_year: let days
    year            \* current_year: the value returned, 0 before the call

vars == <<transmissions, store, writer, readers, pc, now, snapshot,
          recent, before, mutations, ioFailed, clock, days, year>>

\* what the refresh and the page snapshot leave alone
calendar == <<clock, days, year>>

\* ------------------------------------------------------------------------
\* Initial state: the process has started, main is about to call
\* load_transmissions
\* ------------------------------------------------------------------------
Init ==
    /\ store \in StoreChoices
    /\ transmissions = NoState
    /\ writer = "none"
    /\ readers = {}
    /\ pc = [p \in Callers |-> IF p = "main" THEN "load" ELSE "off"]
    /\ now = [p \in Callers |-> 0]
    /\ snapshot = [p \in Callers |-> NoSnapshot]
    /\ recent = [r \in Requests |-> <<>>]
    /\ before = NoState
    /\ mutations = <<>>
    /\ ioFailed = FALSE
    /\ clock = 0
    /\ days = 0
    /\ year = 0

\* ------------------------------------------------------------------------
\* main: load_transmissions
\* ------------------------------------------------------------------------
load_transmissions ==
    /\ pc["main"] = "load"
    /\ IF Loadable(store)
       THEN /\ transmissions' = from_json(store.doc)
            /\ UNCHANGED <<store, ioFailed>>
       ELSE \E t \in unix_now_secs, outcome \in PersistOutcomes :
                  /\ transmissions' = default_transmissions(t)
                  /\ store' = persist_transmissions(default_transmissions(t),
                                                    outcome, store)
                  /\ ioFailed' = (ioFailed \/ outcome # "ok")
    /\ pc' = [pc EXCEPT !["main"] = "idle"]
    /\ UNCHANGED calendar
    /\ UNCHANGED <<writer, readers, now, snapshot, recent, before,
                   mutations>>

\* ------------------------------------------------------------------------
\* generate_if_needed_and_persist, called by main, by the ticker task and by
\* index
\* ------------------------------------------------------------------------
\* where a caller goes when its call returns: main starts the ticker task
\* and the server, the ticker awaits its next tick, index takes the read lock
Returned(p) ==
    IF p = "main"
    THEN [q \in Callers |-> IF q = "main" THEN "serving" ELSE "idle"]
    ELSE [pc EXCEPT ![p] = IF p = "timer" THEN "idle" ELSE "rlock"]

\* let now = unix_now_secs()
Call(p) ==
    /\ pc[p] = "idle"
    /\ \E t \in unix_now_secs : now' = [now EXCEPT ![p] = t]
    /\ pc' = [pc EXCEPT ![p] = "acquire"]
    /\ UNCHANGED calendar
    /\ UNCHANGED <<transmissions, store, writer, readers, snapshot,
                   recent, before, mutations, ioFailed>>

\* app_state.transmissions.write().await
AcquireWrite(p) ==
    /\ pc[p] = "acquire"
    /\ writer = "none"
    /\ readers = {}
    /\ writer' = p
    /\ pc' = [pc EXCEPT ![p] = "gate"]
    /\ UNCHANGED calendar
    /\ UNCHANGED <<transmissions, store, readers, now, snapshot, recent,
                   before, mutations, ioFailed>>

\* maybe_generate_transmission: the gate
Gate(p) ==
    /\ pc[p] = "gate"
    /\ pc' = [pc EXCEPT ![p] = IF Due(transmissions, now[p]) THEN "insert"
                                                               ELSE "release"]
    /\ snapshot' = [snapshot EXCEPT ![p] = NoSnapshot]
    /\ before' = transmissions
    /\ UNCHANGED calendar
    /\ UNCHANGED <<transmissions, store, writer, readers, now, recent,
                   mutations, ioFailed>>

\* state.entries.insert(0, TransmissionEntry { .. })
Insert(p) ==
    /\ pc[p] = "insert"
    /\ transmissions' = InsertNew(transmissions, now[p])
    /\ pc' = [pc EXCEPT ![p] = "truncate"]
    /\ UNCHANGED calendar
    /\ UNCHANGED <<store, writer, readers, now, snapshot, recent,
                   before, mutations, ioFailed>>

\* state.entries.truncate(MAX_TRANSMISSIONS)
TruncateStep(p) ==
    /\ pc[p] = "truncate"
    /\ transmissions' = TruncateEntries(transmissions)
    /\ pc' = [pc EXCEPT ![p] = "setlast"]
    /\ UNCHANGED calendar
    /\ UNCHANGED <<store, writer, readers, now, snapshot, recent,
                   before, mutations, ioFailed>>

\* state.last_generated_at = now; true; Some(guard.clone())
SetLast(p) ==
    /\ pc[p] = "setlast"
    /\ transmissions' = SetLastGenerated(transmissions, now[p])
    /\ snapshot' = [snapshot EXCEPT ![p] = Some(transmissions')]
    /\ mutations' = Append(mutations, now[p])
    /\ pc' = [pc EXCEPT ![p] = "release"]
    /\ UNCHANGED calendar
    /\ UNCHANGED <<store, writer, readers, now, recent, before,
                   ioFailed>>

\* the write guard of a refresh that mutated is kept past the end of the block
ReleaseKeepsGuard(p) ==
    /\ pc[p] = "release"
    /\ writer' = IF snapshot[p].some THEN writer ELSE "none"
    /\ pc' = IF snapshot[p].some THEN [pc EXCEPT ![p] = "persist"] ELSE Returned(p)
    /\ now' = IF snapshot[p].some THEN now ELSE [now EXCEPT ![p] = 0]
    /\ before' = NoState
    /\ UNCHANGED calendar
    /\ UNCHANGED <<transmissions, store, readers, snapshot, recent,
                   mutations, ioFailed>>

\* the write guard is dropped at the end of the block
Release(p) ==
    /\ pc[p] = "release"
    /\ writer' = "none"
    /\ pc' = IF snapshot[p].some THEN [pc EXCEPT ![p] = "persist"] ELSE Returned(p)
    /\ now' = IF snapshot[p].some THEN now ELSE [now EXCEPT ![p] = 0]
    /\ before' = NoState
    /\ UNCHANGED calendar
    /\ UNCHANGED <<transmissions, store, readers, snapshot, recent,
                   mutations, ioFailed>>

\* if let Some(state) = snapshot && let Err(error) = persist_transmissions(&state)
Persist(p) ==
    /\ pc[p] = "persist"
    /\ \E outcome \in PersistOutcomes :
          /\ store' = persist_transmissions(snapshot[p].state, outcome, store)
          /\ ioFailed' = (ioFailed \/ outcome # "ok")
    /\ snapshot' = [snapshot EXCEPT ![p] = NoSnapshot]
    /\ now' = [now EXCEPT ![p] = 0]
    /\ pc' = Returned(p)
    /\ UNCHANGED calendar
    /\ UNCHANGED <<transmissions, writer, readers, recent, before,
                   mutations>>

\* ------------------------------------------------------------------------
\* index, after its refresh: the snapshot for the page
\* ------------------------------------------------------------------------
\* the read guard is handed out while a write guard is held
AcquireReadUnguarded(r) ==
    /\ r \in Requests
    /\ pc[r] = "rlock"
    /\ readers' = readers \cup {r}
    /\ pc' = [pc EXCEPT ![r] = "clone"]
    /\ UNCHANGED calendar
    /\ UNCHANGED <<transmissions, store, writer, now, snapshot, recent,
                   before, mutations, ioFailed>>

\* app_state.transmissions.read().await
AcquireRead(r) ==
    /\ r \in Requests
    /\ pc[r] = "rlock"
    /\ writer = "none"
    /\ readers' = readers \cup {r}
    /\ pc' = [pc EXCEPT ![r] = "clone"]
    /\ UNCHANGED calendar
    /\ UNCHANGED <<transmissions, store, writer, now, snapshot, recent,
                   before, mutations, ioFailed>>

\* guard.entries.clone(), then the read guard is dropped
CloneEntries(r) ==
    /\ r \in Requests
    /\ pc[r] = "clone"
    /\ recent' = [recent EXCEPT ![r] = transmissions.entries]
    /\ readers' = readers \ {r}
    /\ pc' = [pc EXCEPT ![r] = "render"]
    /\ UNCHANGED calendar
    /\ UNCHANGED <<transmissions, store, writer, now, snapshot, before,
                   mutations, ioFailed>>

\* the page is rendered from the snapshot and the handler returns
Render(r) ==
    /\ r \in Requests
    /\ pc[r] = "render"
    /\ recent' = [recent EXCEPT ![r] = <<>>]
    /\ pc' = [pc EXCEPT ![r] = "idle"]
    /\ UNCHANGED calendar
    /\ UNCHANGED <<transmissions, store, writer, readers, now, snapshot,
                   before, mutations, ioFailed>>

Next ==
    \/ load_transmissions
    \/ \E p \in Callers : Call(p)
    \/ \E p \in Callers : AcquireWrite(p)
    \/ \E p \in Callers : Gate(p)
    \/ \E p \in Callers : Insert(p)
    \/ \E p \in Callers : TruncateStep(p)
    \/ \E p \in Callers : SetLast(p)
    \/ \E p \in Callers : Release(p)
    \/ \E p \in Callers : Persist(p)
    \/ \E r \in Requests : AcquireRead(r)
    \/ \E r \in Requests : CloneEntries(r)
    \/ \E r \in Requests : Render(r)

Spec == Init /\ [][Next]_vars


\* ------------------------------------------------------------------------
\* N callers entering generate_if_needed_and_persist in the same second
\* ------------------------------------------------------------------------
\* the states a run starts its refreshes from: a loaded store or a fresh seed
StartStates ==
    {from_json(sc.doc) : sc \in {x \in StoreChoices : Loadable(x)}}
    \cup {default_transmissions(t) : t \in Times}

BurstCallers == Callers \ {"main"}

\* the server is up, every caller has read the same clock value, the refresh
\* is due and nobody holds the lock yet
BurstInit ==
    /\ \E t \in unix_now_secs :
          /\ now = [p \in Callers |-> IF p = "main" THEN 0 ELSE t]
          /\ transmissions \in {st \in StartStates :
                 t >= st.last_generated_at + GENERATION_INTERVAL_SECS}
    /\ store = StoreJson(transmissions)
    /\ writer = "none"
    /\ readers = {}
    /\ pc = [p \in Callers |-> IF p = "main" THEN "serving" ELSE "acquire"]
    /\ snapshot = [p \in Callers |-> NoSnapshot]
    /\ recent = [r \in Requests |-> <<>>]
    /\ before = NoState
    /\ mutations = <<>>
    /\ ioFailed = FALSE
    /\ clock = 0
    /\ days = 0
    /\ year = 0

BurstNext ==
    \/ \E p \in BurstCallers : AcquireWrite(p)
    \/ \E p \in BurstCallers : Gate(p)
    \/ \E p \in BurstCallers : Insert(p)
    \/ \E p \in BurstCallers : TruncateStep(p)
    \/ \E p \in BurstCallers : SetLast(p)
    \/ \E p \in BurstCallers : Release(p)
    \/ \E p \in BurstCallers : Persist(p)

SpecBurst == BurstInit /\ [][BurstNext]_vars

\* ------------------------------------------------------------------------
\* maybe_generate_transmission called twice in a row on one state
\* ------------------------------------------------------------------------
\* generate_scifi_message(now, n) repeats in now with this period: each of
\* now / 7, now / 11 and now / 13 has advanced by a multiple of the six
\* phrases
MessagePeriod == 6 * 7 * 11 * 13

\* clock values of the two calls: the clock's values, one second later, one
\* second before the next, and two message periods later
CallTimes == {t + d : t \in Times, d \in {0, 1, ClockStep - 1, 2 * MessagePeriod}}

\* "main" makes the first call with now1, "timer" the second with now2
PairInit ==
    /\ transmissions \in StartStates
    /\ store = StoreAbsent
    /\ writer = "none"
    /\ readers = {}
    /\ pc = [p \in Callers |-> IF p \in {"main", "timer"} THEN "gate" ELSE "off"]
    /\ now \in {f \in [Callers -> CallTimes \cup {0}] :
                   /\ f["main"] # 0
                   /\ f["timer"] # 0
                   /\ \A r \in Requests : f[r] = 0}
    /\ snapshot = [p \in Callers |-> NoSnapshot]
    /\ recent = [r \in Requests |-> <<>>]
    /\ before = transmissions
    /\ mutations = <<>>
    /\ ioFailed = FALSE
    /\ clock = 0
    /\ days = 0
    /\ year = 0

Returned1 == pc["main"] = "release"
Returned2 == pc["timer"] = "release"

PairNext ==
    \/ Gate("main")
    \/ Insert("main")
    \/ TruncateStep("main")
    \/ SetLast("main")
    \/ Returned1 /\ Gate("timer")
    \/ Returned1 /\ Insert("timer")
    \/ Returned1 /\ TruncateStep("timer")
    \/ Returned1 /\ SetLast("timer")

SpecPair == PairInit /\ [][PairNext]_vars

\* ------------------------------------------------------------------------
\* Properties
\* ------------------------------------------------------------------------
Started == pc["main"] # "load"

InRefresh(p) ==
    pc[p] \in {"acquire", "gate", "insert", "truncate", "setlast", "release",
               "persist"}

\* p has come back from maybe_generate_transmission and still holds the lock
AfterGate(p) == pc[p] = "release"
Mutated(p) == snapshot[p].some

LabelsMatch(es) ==
    \A i \in DOMAIN es : es[i].time_label = clock_label_from_unix(es[i].timestamp)

BurstFinished == \A p \in BurstCallers : pc[p] \in {"idle", "rlock"}

\* C1: when N >= 2 callers that all read the same due clock value have all
\* finished, exactly one mutation has happened: one entry stamped now was
\* inserted and last_generated_at = now.
C1_BurstInsertsOnce ==
    /\ \A p \in BurstCallers, i \in DOMAIN mutations :
          InRefresh(p) => mutations[i] = now[p]
    /\ BurstFinished =>
          /\ Len(mutations) = 1
          /\ transmissions.last_generated_at = mutations[1]
          /\ Cardinality({i \in DOMAIN transmissions.entries :
                 transmissions.entries[i].timestamp = mutations[1]}) = 1

C1_Witness ==
    /\ BurstFinished
    /\ Cardinality(BurstCallers) >= 2
    /\ mutations # <<>>

\* C2: the now values of any two successive mutations are at least
\* GENERATION_INTERVAL_SECS apart.
C2_MutationsSpaced ==
    \A i \in 1..(Len(mutations) - 1) :
        mutations[i + 1] - mutations[i] >= 10800

\* two mutations have happened and a caller whose clock value was due when
\* it read it has lost the race: it found the gate shut under the lock
C2_Witness ==
    /\ Len(mutations) >= 2
    /\ \E p \in Callers :
          /\ AfterGate(p)
          /\ ~Mutated(p)
          /\ now[p] = mutations[Len(mutations)]

\* C3 as stated: with now1 < now2 and now2 - now1 < 10800, the call at now2
\* never mutates.
C3_SecondNeverMutates ==
    (Returned1 /\ Returned2 /\ now["main"] < now["timer"]
               /\ now["timer"] - now["main"] < 10800)
        => ~Mutated("timer")

\* C3 amended: with now1 < now2 and now2 - now1 < 10800 the two calls mutate
\* at most once; when the call at now1 mutated the call at now2 does not;
\* when the call at now1 did not mutate, the call at now2 mutates exactly
\* when now2 >= last_generated_at + 10800.
C3_AtMostOnce ==
    (Returned1 /\ Returned2 /\ now["main"] < now["timer"]
               /\ now["timer"] - now["main"] < 10800)
        => /\ Mutated("main") => ~Mutated("timer")
           /\ ~Mutated("main") =>
                 (Mutated("timer") <=>
                     now["timer"] >= before.last_generated_at + 10800)

\* the call at now1 mutated, the call at now2 came back without mutating
C3_Witness ==
    /\ Returned1 /\ Returned2
    /\ now["main"] < now["timer"]
    /\ now["timer"] - now["main"] < 10800
    /\ Mutated("main")
    /\ ~Mutated("timer")

\* C4: a refresh that is due returns true with the new entry at the head,
\* last_generated_at = now, min(len + 1, 12) entries, and behind the head the
\* previous entries in their order, the oldest dropped.
C4_DuePostcondition ==
    \A p \in Callers :
        (AfterGate(p) /\ now[p] >= before.last_generated_at + 10800) =>
            LET es == transmissions.entries
                n == IF Len(before.entries) + 1 < 12 THEN Len(before.entries) + 1
                                                    ELSE 12
            IN  /\ Mutated(p)
                /\ transmissions.last_generated_at = now[p]
                /\ Len(es) = n
                /\ es[1].timestamp = now[p]
                /\ \A i \in 2..n : es[i] = before.entries[i - 1]

\* a due refresh has returned and dropped the tail of a full list
C4_Witness ==
    \E p \in Callers :
        /\ AfterGate(p)
        /\ Mutated(p)
        /\ Len(before.entries) >= 12
        /\ Len(transmissions.entries) = 12

\* C5: a refresh with now < last_generated_at + 10800 returns false, leaves
\* the state as it found it and returns without writing the store.
C5_NotDueNoEffect ==
    [][\A p \in Callers :
          (AfterGate(p) /\ pc'[p] # pc[p]
                        /\ now[p] < before.last_generated_at + 10800) =>
              /\ ~Mutated(p)
              /\ transmissions = before
              /\ transmissions' = transmissions
              /\ store' = store
              /\ pc'[p] # "persist"]_vars

\* a call made after the clock went backward has found the gate shut
C5_Witness ==
    \E p \in Callers :
        /\ AfterGate(p)
        /\ ~Mutated(p)
        /\ now[p] < transmissions.last_generated_at
        /\ mutations # <<>>

\* C6: once the state is loaded, last_generated_at never decreases.
C6_LastGeneratedMonotonic ==
    [][Started =>
          transmissions'.last_generated_at >= transmissions.last_generated_at]_vars

\* a caller that read its clock before a competing mutation, or after the
\* clock was stepped back, is about to check the gate with now below
\* last_generated_at
C6_Witness ==
    \E p \in Callers :
        /\ pc[p] = "gate"
        /\ mutations # <<>>
        /\ now[p] + 10800 <= transmissions.last_generated_at

Quiescent == Started /\ \A p \in Callers : ~InRefresh(p)

\* C7: when no write has failed and no refresh call is in progress, the
\* store holds the in-memory state.
C7_StoreEqualsMemory ==
    (Quiescent /\ ~ioFailed) => store = StoreJson(transmissions)

\* C8: after initialization entries is never empty.
C8_EntriesNeverEmpty == Started => Len(transmissions.entries) >= 1

\* the store held an empty entries list (and the seed could not be written
\* over it), and a refresh has mutated the seeded state
C8_Witness ==
    /\ Started
    /\ store.kind = "json"
    /\ from_json(store.doc).entries = <<>>
    /\ mutations # <<>>

MidMutation == \E p \in Callers : pc[p] \in {"insert", "truncate", "setlast"}

\* C9: in every state reached after a mutation by refresh, entries holds at
\* most 12 elements.
C9_CapAfterMutation ==
    (mutations # <<>> /\ ~MidMutation) => Len(transmissions.entries) <= 12

\* a mutation of a list loaded with more than 12 entries has completed
C9_Witness ==
    /\ mutations # <<>>
    /\ ~MidMutation
    /\ Len(before.entries) > 12
    /\ \E p \in Callers : AfterGate(p) /\ Mutated(p)

\* C10: in every state after the load, every entry's time_label is
\* clock_label_from_unix of its timestamp.
C10_LabelsMatch == Started => LabelsMatch(transmissions.entries)

\* p's durable write has just failed: the store does not hold p's snapshot
PersistFailedStep(p) ==
    /\ pc[p] = "persist"
    /\ snapshot[p].some
    /\ snapshot'[p] = NoSnapshot
    /\ store' # StoreJson(snapshot[p].state)

\* C11: when the durable write after a mutating refresh fails, the mutation
\* stays in memory (the new entry at the head and last_generated_at = now,
\* unless a later refresh has begun to mutate), the caller returns to serving,
\* and a write is only ever attempted by a refresh that has just mutated.
C11_FailedWriteKeepsMutation ==
    [][\A p \in Callers :
          /\ PersistFailedStep(p) =>
                /\ transmissions' = transmissions
                /\ \E i \in DOMAIN mutations : mutations[i] = now[p]
                /\ (mutations[Len(mutations)] = now[p] /\ ~MidMutation) =>
                      /\ transmissions'.last_generated_at = now[p]
                      /\ transmissions'.entries[1].timestamp = now[p]
                      /\ transmissions' = snapshot[p].state
                /\ pc'[p] \in {"serving", "idle", "rlock"}
          /\ (pc[p] # "persist" /\ pc'[p] = "persist") =>
                /\ pc[p] = "release"
                /\ Mutated(p)
                /\ mutations[Len(mutations)] = now[p]
                /\ transmissions.last_generated_at = now[p]]_vars

\* a refresh mutated a loaded 12-entry list, its write failed, and every
\* caller is back to serving with the mutation still in memory
C11_Witness ==
    /\ ioFailed
    /\ mutations # <<>>
    /\ Len(transmissions.entries) = 12
    /\ transmissions.last_generated_at = mutations[Len(mutations)]
    /\ transmissions.entries[1].timestamp = mutations[Len(mutations)]
    /\ store # StoreJson(transmissions)
    /\ pc["main"] = "serving"
    /\ \A p \in Callers : ~InRefresh(p)

\* the seed the claim describes for a load at clock value t
C12_Seed(t) ==
    [last_generated_at |-> t,
     entries |-> <<
        [timestamp |-> t - 1200,
         time_label |-> clock_label_from_unix(t - 1200),
         message |-> <<"Uplink stabilized. Archive index pushed to public relay.">>],
        [timestamp |-> t - 3300,
         time_label |-> clock_label_from_unix(t - 3300),
         message |-> <<"Detected repeating pattern in ambient static. Logged as anomaly A-17.">>],
        [timestamp |-> t - 5800,
         time_label |-> clock_label_from_unix(t - 5800),
         message |-> <<"Scheduled new broadcast: Deep Space Transmitter.">>]>>]

\* C12: load_transmissions on a store that is missing, unparseable or parsed
\* with empty entries returns the three seed entries stamped now - 1200,
\* now - 3300, now - 5800 in that order and, when the write succeeds, leaves
\* the store holding that state; a store that parses with non-empty entries
\* is returned as loaded and is not rewritten.
C12_LoadSeedsOrKeeps ==
    [][(pc["main"] = "load" /\ pc'["main"] # "load") =>
          IF store.kind = "json" /\ Len(from_json(store.doc).entries) >= 1
          THEN /\ transmissions' = from_json(store.doc)
               /\ store' = store
               /\ ioFailed' = ioFailed
          ELSE /\ \E t \in unix_now_secs : transmissions' = C12_Seed(t)
               /\ Len(transmissions'.entries) = 3
               /\ ioFailed' = ioFailed => store' = StoreJson(transmissions')]_vars

\* the store was missing, the seed was returned and written
C12_Witness ==
    /\ pc["main"] = "idle"
    /\ mutations = <<>>
    /\ \E t \in unix_now_secs : transmissions = C12_Seed(t)
    /\ store = StoreJson(transmissions)
    /\ ~ioFailed

\* ------------------------------------------------------------------------
\* persist_transmissions followed by load_transmissions in the next run of
\* the process
\* ------------------------------------------------------------------------
\* the states a refresh hands to persist_transmissions
PersistedStates ==
    {SetLastGenerated(TruncateEntries(InsertNew(q[1], q[2])), q[2]) :
        q \in {x \in StartStates \X Times : Due(x[1], x[2])}}

\* main's first refresh has mutated and is about to write its snapshot
RoundTripInit ==
    /\ transmissions \in PersistedStates
    /\ store = StoreAbsent
    /\ writer = "none"
    /\ readers = {}
    /\ pc = [p \in Callers |-> IF p = "main" THEN "persist" ELSE "off"]
    /\ now = [p \in Callers |->
                 IF p = "main" THEN transmissions.last_generated_at ELSE 0]
    /\ snapshot = [p \in Callers |->
                      IF p = "main" THEN Some(transmissions) ELSE NoSnapshot]
    /\ recent = [r \in Requests |-> <<>>]
    /\ before = transmissions
    /\ mutations = <<transmissions.last_generated_at>>
    /\ ioFailed = FALSE
    /\ clock = 0
    /\ days = 0
    /\ year = 0

\* the process ends and is started again: memory is lost, the file stays
Restart ==
    /\ pc["main"] = "serving"
    /\ transmissions' = NoState
    /\ pc' = [p \in Callers |-> IF p = "main" THEN "load" ELSE "off"]
    /\ UNCHANGED calendar
    /\ UNCHANGED <<store, writer, readers, now, snapshot, recent, before,
                   mutations, ioFailed>>

RoundTripNext ==
    \/ Persist("main")
    \/ Restart
    \/ load_transmissions

SpecRoundTrip == RoundTripInit /\ [][RoundTripNext]_vars

\* C13: a state with non-empty entries that was persisted without error and
\* is then loaded comes back equal: the same last_generated_at and the same
\* entries, field for field and in the same order.
C13_RoundTrip ==
    (pc["main"] = "idle" /\ ~ioFailed) =>
        /\ transmissions.last_generated_at = before.last_generated_at
        /\ Len(transmissions.entries) = Len(before.entries)
        /\ \A i \in DOMAIN before.entries :
              /\ transmissions.entries[i].timestamp = before.entries[i].timestamp
              /\ transmissions.entries[i].time_label = before.entries[i].time_label
              /\ transmissions.entries[i].message = before.entries[i].message
        /\ transmissions = before

\* a list of 12 entries has been written and read back
C13_Witness ==
    /\ pc["main"] = "idle"
    /\ ~ioFailed
    /\ store.kind = "json"
    /\ Len(before.entries) = 12
    /\ transmissions = before

\* C14: two consecutive generations produce different messages: when the
\* call at now1 and the next call at now2 >= now1 + 10800 have both generated,
\* the head (from now2) and the entry behind it (from now1) carry different
\* messages.
C14_ConsecutiveMessagesDiffer ==
    (Returned1 /\ Returned2 /\ Mutated("main") /\ Mutated("timer")) =>
        /\ now["timer"] >= now["main"] + 10800
        /\ transmissions.entries[1].timestamp = now["timer"]
        /\ transmissions.entries[2].timestamp = now["main"]
        /\ transmissions.entries[1].message # transmissions.entries[2].message

\* ------------------------------------------------------------------------
\* current_year and year_from_unix_days
\* ------------------------------------------------------------------------
\* i64 `/`: the quotient truncated toward zero
TruncDiv(a, b) == IF a >= 0 THEN a \div b ELSE -((-a) \div b)

\* i64::div_euclid with a positive divisor: the quotient rounded down
DivEuclid(a, b) == a \div b

\* the year of the 1 March that opens the computed year, without the step to
\* the next year for January and February
year_from_unix_days_march(days_since_epoch) ==
    LET z == days_since_epoch + 719468
        era == DivEuclid(IF z >= 0 THEN z ELSE z - 146096, 146097)
        doe == z - era * 146097
        yoe == DivEuclid(doe - TruncDiv(doe, 1460) + TruncDiv(doe, 36524)
                             - TruncDiv(doe, 146096), 365)
    IN  yoe + era * 400

year_from_unix_days(days_since_epoch) ==
    LET z == days_since_epoch + 719468
        era == DivEuclid(IF z >= 0 THEN z ELSE z - 146096, 146097)
        doe == z - era * 146097
        yoe == DivEuclid(doe - TruncDiv(doe, 1460) + TruncDiv(doe, 36524)
                             - TruncDiv(doe, 146096), 365)
        year0 == yoe + era * 400
        doy == doe - (365 * yoe + TruncDiv(yoe, 4) - TruncDiv(yoe, 100))
        mp == DivEuclid(5 * doy + 2, 153)
        month == mp + IF mp < 10 THEN 3 ELSE -9
    IN  year0 + IF month <= 2 THEN 1 ELSE 0

\* day counts from DaysBefore days before 1970-01-01 (in 1890) to DaysAfter
\* days after it (in 2111): the centuries 1900, 2000 and 2100 are inside
DaysBefore == 29220
DaysAfter == 51500

YearInit ==
    /\ days \in (0 - DaysBefore)..DaysAfter
    /\ year = 0
    /\ clock = 0
    /\ transmissions = NoState
    /\ store = StoreAbsent
    /\ writer = "none"
    /\ readers = {}
    /\ pc = [p \in Callers |-> "off"]
    /\ now = [p \in Callers |-> 0]
    /\ snapshot = [p \in Callers |-> NoSnapshot]
    /\ recent = [r \in Requests |-> <<>>]
    /\ before = NoState
    /\ mutations = <<>>
    /\ ioFailed = FALSE

\* year_from_unix_days(days)
YearFromUnixDays ==
    /\ year = 0
    /\ year' = year_from_unix_days(days)
    /\ UNCHANGED <<transmissions, store, writer, readers, pc, now, snapshot,
                   recent, before, mutations, ioFailed, clock, days>>

SpecYear == YearInit /\ [][YearFromUnixDays]_vars

\* the proleptic Gregorian calendar, counted year by year from 1970
IsLeapYear(y) == (y % 4 = 0 /\ y % 100 # 0) \/ y % 400 = 0
DaysInYear(y) == IF IsLeapYear(y) THEN 366 ELSE 365

RECURSIVE GregorianYear(_, _)
\* the year of the day d days after 1 January of year y
GregorianYear(d, y) ==
    IF d < 0 THEN GregorianYear(d + DaysInYear(y - 1), y - 1)
    ELSE IF d >= DaysInYear(y) THEN GregorianYear(d - DaysInYear(y), y + 1)
    ELSE y

\* C15: for every day count of the range, negative ones included,
\* year_from_unix_days gives the proleptic Gregorian year of that day: day 0
\* is in 1970, 2000-03-01 (day 11017) in 2000, and the last day of a year
\* (1969-12-31, 1970-12-31, 1999-12-31, 2000-12-31) in that year.
C15_GregorianYear ==
    year # 0 =>
        /\ year = GregorianYear(days, 1970)
        /\ days = 0 => year = 1970
        /\ days = 11017 => year = 2000
        /\ days = 0 - 1 => year = 1969
        /\ days = 364 => year = 1970
        /\ days = 10956 => year = 1999
        /\ days = 11322 => year = 2000
        /\ GregorianYear(days + 1, 1970) = year + 1 =>
              year_from_unix_days(days + 1) = year + 1

\* the last day of the century year 1900, a negative day count
C15_Witness ==
    /\ days < 0
    /\ year = 1900
    /\ ~IsLeapYear(year)
    /\ GregorianYear(days + 1, 1970) = 1901

\* C16: a caller has released the write lock before its durable write
\* starts: no caller is at its write while holding the write guard or a read
\* guard, and the lock is held only by callers between acquiring it and the
\* end of the gate check and mutation.
C16_NoWriteUnderLock ==
    /\ \A p \in Callers :
          (pc[p] = "persist" \/ pc[p] = "load") => (writer # p /\ p \notin readers)
    /\ \A p \in Callers :
          writer = p => pc[p] \in {"gate", "insert", "truncate", "setlast", "release"}

\* while the ticker's write is pending, a request has run its own refresh
\* and taken a snapshot that holds the ticker's new entry
C16_Witness ==
    \E r \in Requests :
        /\ pc["timer"] = "persist"
        /\ pc[r] = "render"
        /\ recent[r] = snapshot["timer"].state.entries
        /\ store # StoreJson(snapshot["timer"].state)

\* C17: the snapshot a page render takes is copied from a state that no
\* refresh is in the middle of mutating: when guard.entries.clone() runs,
\* no caller is between its insert and its update of last_generated_at, and
\* the copy is the whole entries list of that state.
C17_SnapshotNotMidMutation ==
    [][\A r \in Requests :
          (pc[r] = "clone" /\ pc'[r] = "render") =>
              /\ recent'[r] = transmissions.entries
              /\ \A p \in Callers : pc[p] \notin {"truncate", "setlast"}
              /\ writer = "none"
              /\ \/ mutations = <<>>
                 \/ /\ transmissions.last_generated_at = mutations[Len(mutations)]
                    /\ recent'[r][1].timestamp = transmissions.last_generated_at
                    /\ Len(recent'[r]) <= 12]_vars

\* a request holds the snapshot it took before the mutation that is now in
\* progress: the list as it stood before the insert
C17_Witness ==
    \E r \in Requests, p \in Callers :
        /\ pc[r] = "render"
        /\ pc[p] \in {"truncate", "setlast"}
        /\ recent[r] = before.entries
        /\ recent[r] # transmissions.entries

\* the timestamps never increase from the head to the tail
NewestFirst(es) ==
    \A i \in 1..(Len(es) - 1) : es[i].timestamp >= es[i + 1].timestamp

\* the run started from the seed: the oldest seed entry is still in the list
FromSeed ==
    \E i \in DOMAIN transmissions.entries :
        transmissions.entries[i].message =
            <<"Scheduled new broadcast: Deep Space Transmitter.">>

\* C19: in a run that started from the seed, whenever no refresh is between
\* its insert and its update of last_generated_at, entries is ordered newest
\* first and the head's timestamp is at most last_generated_at.
C19_NewestFirst ==
    (Started /\ FromSeed /\ ~MidMutation) =>
        /\ NewestFirst(transmissions.entries)
        /\ transmissions.entries[1].timestamp <= transmissions.last_generated_at

\* two refreshes have mutated the seed, the second with a clock value read
\* before the first one's
C19_Witness ==
    /\ Started /\ FromSeed /\ ~MidMutation
    /\ Len(mutations) >= 2
    /\ Len(transmissions.entries) = 5
    /\ \E p \in Callers : InRefresh(p) /\ now[p] < transmissions.last_generated_at

\* C20: every snapshot the page-render path takes holds at most 12 entries,
\* whatever the store held at the start and whether or not a refresh has
\* been due since the load.
C20_SnapshotAtMostCap ==
    \A r \in Requests : pc[r] = "render" => Len(recent[r]) <= 12

\* ------------------------------------------------------------------------
\* The server running under a clock that advances: the ticker task and the
\* page requests, scheduled fairly
\* ------------------------------------------------------------------------
\* the system clock moves forward
Tick ==
    /\ \E t \in Times : t > clock /\ clock' = t
    /\ UNCHANGED <<transmissions, store, writer, readers, pc, now, snapshot,
                   recent, before, mutations, ioFailed, days, year>>

\* let now = unix_now_secs(), read from the running clock
CallAtClock(p) ==
    /\ pc[p] = "idle"
    /\ now' = [now EXCEPT ![p] = clock]
    /\ pc' = [pc EXCEPT ![p] = "acquire"]
    /\ UNCHANGED <<transmissions, store, writer, readers, snapshot, recent,
                   before, mutations, ioFailed, clock, days, year>>

\* the tasks that run once main serves: the ticker and one page request
Tasks == {"timer", "req1"}

\* the state main serves from: a fresh seed, or a loaded list at the cap whose
\* last generation is a full interval old
LiveStartStates ==
    {default_transmissions(BaseTime),
     PriorRun(BaseTime - GENERATION_INTERVAL_SECS, MAX_TRANSMISSIONS)}

\* main has loaded the state, made its first refresh and serves
LiveInit ==
    /\ clock = BaseTime
    /\ transmissions \in LiveStartStates
    /\ store = StoreJson(transmissions)
    /\ writer = "none"
    /\ readers = {}
    /\ pc = [p \in Callers |-> IF p = "main" THEN "serving" ELSE "idle"]
    /\ now = [p \in Callers |-> 0]
    /\ snapshot = [p \in Callers |-> NoSnapshot]
    /\ recent = [r \in Requests |-> <<>>]
    /\ before = NoState
    /\ mutations = <<>>
    /\ ioFailed = FALSE
    /\ days = 0
    /\ year = 0

\* the steps a task takes without waiting for the lock
Run(p) ==
    \/ Gate(p)
    \/ Insert(p)
    \/ TruncateStep(p)
    \/ SetLast(p)
    \/ Release(p)
    \/ Persist(p)
    \/ AcquireRead(p)
    \/ CloneEntries(p)
    \/ Render(p)

LiveNext ==
    \/ Tick
    \/ \E p \in Tasks : CallAtClock(p)
    \/ \E p \in Tasks : AcquireWrite(p)
    \/ \E p \in Tasks : Run(p)

\* the clock advances; the ticker's interval keeps firing; the runtime keeps
\* running every task that can take a step; the RwLock is fair, so a task
\* that finds the lock free again and again obtains it. Page requests are
\* under no obligation to arrive.
Fairness ==
    /\ WF_vars(Tick)
    /\ WF_vars(CallAtClock("timer"))
    /\ \A p \in Tasks : WF_vars(Run(p))
    /\ \A p \in Tasks : SF_vars(AcquireWrite(p))

SpecLive == LiveInit /\ [][LiveNext]_vars /\ Fairness

\* C18: under a clock that advances and a ticker that keeps ticking,
\* whenever the clock is at least 10800 past last_generated_at a new entry is
\* eventually generated, page requests or not, and every caller waiting for
\* the write lock eventually gets it.
C18_EventuallyGenerated ==
    /\ \A n \in 0..Cardinality(Times) :
          (clock - transmissions.last_generated_at >= 10800 /\ Len(mutations) = n)
              ~> (Len(mutations) > n)
    /\ \A p \in Tasks : (pc[p] = "acquire") ~> (pc[p] = "gate")

\* the ticker has generated at the last clock value while no page request
\* is running
C18_Witness ==
    /\ \A t \in Times : t <= clock
    /\ pc["timer"] = "persist"
    /\ Mutated("timer")
    /\ now["timer"] = clock
    /\ \A r \in Requests : pc[r] = "idle"

====
